---- MODULE Spec2Model ----
(***************************************************************************)
(* The OUSD allocation simulator of src/pages/index.tsx: the useSimulator  *)
(* hook (React state, the asynchronous recompute effect, the two change    *)
(* handlers) and the quote and holdings processing it calls.               *)
(*                                                                         *)
(* JavaScript values.  A number is the record [k |-> "num", n, d]: the     *)
(* rational n/d in lowest terms with d > 0, or one of the three IEEE       *)
(* specials with d = 0: NaN is 0/0, Infinity is 1/0, -Infinity is -1/0.    *)
(* Rounding of binary floating point and the sign of zero are not          *)
(* modelled.  undefined and null are records of the same shape with their  *)
(* own kind.  A numeric string of a venue response stands for the number   *)
(* it denotes.  An object is a function whose DOMAIN is its set of keys.   *)
(***************************************************************************)
EXTENDS Integers, Sequences, FiniteSets, TLC

\* ------------------------------------------------------------------ bounds
\* Largest amount a strategy holds of one asset in a holdings snapshot.
MaxAmount == 1
\* Number of handler calls (allocation edits and boost changes) in a run.
MaxMutations == 1

\* ------------------------------------------------------- JavaScript values
Abs(i) == IF i < 0 THEN -i ELSE i

Sign(i) == IF i < 0 THEN -1 ELSE IF i = 0 THEN 0 ELSE 1

RECURSIVE Gcd(_, _)
Gcd(a, b) == IF b = 0 THEN a ELSE Gcd(b, a % b)

\* The number n/d (d >= 0), in lowest terms; d = 0 gives NaN or an infinity.
Num(n, d) ==
    IF d = 0 THEN [k |-> "num", n |-> Sign(n), d |-> 0]
    ELSE LET g == Gcd(Abs(n), d) IN [k |-> "num", n |-> n \div g, d |-> d \div g]

Integer(i) == Num(i, 1)

Zero == Integer(0)

NaN == Num(0, 0)

Undefined == [k |-> "undefined", n |-> 0, d |-> 0]

Null == [k |-> "null", n |-> 0, d |-> 0]

IsNaN(v) == v.k = "num" /\ v.d = 0 /\ v.n = 0

IsFinite(v) == v.k = "num" /\ v.d > 0

\* ToNumber: undefined -> NaN, null -> 0, a number -> itself.
ToNumber(v) ==
    IF v.k = "undefined" THEN NaN ELSE IF v.k = "null" THEN Zero ELSE v

\* a + b on numbers.
NumAdd(a, b) ==
    IF a.d = 0 /\ b.d = 0
    THEN (IF a.n = b.n THEN a ELSE NaN)
    ELSE LET g == Gcd(a.d, b.d)
         IN Num(a.n * (b.d \div g) + b.n * (a.d \div g), (a.d \div g) * b.d)

\* a * b on numbers.
NumMul(a, b) ==
    IF a.d = 0 \/ b.d = 0 \/ a.n = 0 \/ b.n = 0
    THEN Num(Sign(a.n) * Sign(b.n), Sign(a.d) * Sign(b.d))
    ELSE LET g == Gcd(Abs(a.n), b.d)
             h == Gcd(Abs(b.n), a.d)
         IN Num((a.n \div g) * (b.n \div h), (a.d \div h) * (b.d \div g))

\* 1 / b on numbers: 1/0 is Infinity, 1/Infinity is 0, 1/NaN is NaN.
NumInv(b) ==
    IF b.n = 0 THEN (IF b.d = 0 THEN NaN ELSE Num(1, 0))
    ELSE Num(Sign(b.n) * b.d, Abs(b.n))

\* The operators +, * and / of the language, on any two values.
Add(a, b) == NumAdd(ToNumber(a), ToNumber(b))

Mul(a, b) == NumMul(ToNumber(a), ToNumber(b))

Div(a, b) == NumMul(ToNumber(a), NumInv(ToNumber(b)))

\* Truthiness of a value that is a number, undefined or null.
Truthy(v) == v.k = "num" /\ ~(v.n = 0)

\* v || w
OrElse(v, w) == IF Truthy(v) THEN v ELSE w

\* Number(v)
Number(v) == ToNumber(v)

\* obj[key], undefined when the object has no such key.
Get(obj, key) == IF key \in DOMAIN obj THEN obj[key] ELSE Undefined

\* Array.prototype.reduce: seq.reduce(f, init).  Each intermediate value is
\* computed before the next call of f.
Reduce(f(_, _), seq, init) ==
    LET go[i \in 0..Len(seq)] ==
            IF i = 0 THEN init
            ELSE CHOOSE r \in {f(prev, seq[i]) : prev \in {go[i - 1]}} : TRUE
    IN go[Len(seq)]

\* ------------------------------------------------------- program constants
\* Object.keys(aaveTokens)
aaveTokens == {"ADAI", "AUSDC", "AUSDT"}

\* Object.keys(compoundTokens)
compoundTokens == {"cDAI", "cUSDC", "cUSDT"}

\* Object.keys(defiLlama), in declaration order
defiLlama ==
    << "convex3pool", "convexLusd3Crv", "convexOusd3Crv",
       "morphoAaveDAI", "morphoAaveUSDC", "morphoAaveUSDT",
       "morphoCompoundDAI", "morphoCompoundUSDC", "morphoCompoundUSDT" >>

Basket == <<"DAI", "USDC", "USDT">>

\* The catalog: one entry per row of the strategy table, in display order.
strategies ==
    << [strategyId |-> "aavestrat_holding", token |-> "DAI", apy |-> "ADAI"],
       [strategyId |-> "aavestrat_holding", token |-> "USDC", apy |-> "AUSDC"],
       [strategyId |-> "aavestrat_holding", token |-> "USDT", apy |-> "AUSDT"],
       [strategyId |-> "compstrat_holding", token |-> "DAI", apy |-> "cUSDT"],
       [strategyId |-> "compstrat_holding", token |-> "USDC", apy |-> "cUSDT"],
       [strategyId |-> "compstrat_holding", token |-> "USDT", apy |-> "cUSDT"],
       [strategyId |-> "threepoolstrat_holding", token |-> Basket, apy |-> "convex3pool"],
       [strategyId |-> "lusd_metastrat", token |-> Basket, apy |-> "convexLusd3Crv"],
       [strategyId |-> "ousd_metastrat", token |-> Basket, apy |-> "convexOusd3Crv"],
       [strategyId |-> "morpho_aave_strat", token |-> "DAI", apy |-> "morphoAaveDAI"],
       [strategyId |-> "morpho_aave_strat", token |-> "USDC", apy |-> "morphoAaveUSDC"],
       [strategyId |-> "morpho_aave_strat", token |-> "USDT", apy |-> "morphoAaveUSDT"],
       [strategyId |-> "morpho_strat", token |-> "DAI", apy |-> "morphoCompoundDAI"],
       [strategyId |-> "morpho_strat", token |-> "USDC", apy |-> "morphoCompoundUSDC"],
       [strategyId |-> "morpho_strat", token |-> "USDT", apy |-> "morphoCompoundUSDT"] >>

stables == <<"DAI", "USDT", "USDC">>

\* The seven strategies the effect destructures out of the snapshot, which
\* are also the columns of the allocation matrix.
StrategyIds ==
    << "aavestrat_holding", "compstrat_holding", "threepoolstrat_holding",
       "lusd_metastrat", "ousd_metastrat", "morpho_aave_strat", "morpho_strat" >>

Range(seq) == {seq[i] : i \in 1..Len(seq)}

\* The keys a response lists its strategies and its tokens in.
StrategyKeyOrder == <<"vault_holding">> \o StrategyIds

TokenKeyOrder == <<"DAI", "USDC", "USDT", "OUSD">>

\* Object.keys(obj), for an object whose keys are among those of `order`
Keys(obj, order) == SelectSeq(order, LAMBDA key : key \in DOMAIN obj)

\* Array.isArray(token), for the token of a catalog entry
IsArray(token) == token \in Seq(Range(Basket))

\* useState initial value of allocations: every cell 0.
InitialAllocations ==
    [t \in Range(Basket) |-> [s \in Range(StrategyIds) |-> Zero]]

\* useState initial value of boostMultiplier: 2.94
InitialBoostMultiplier == Num(294, 100)

\* --------------------------------------------------------- quote processing
\* The result of a function that may throw: the value, or a TypeError.
Ok(v) == [ok |-> TRUE, v |-> v]

Throw == [ok |-> FALSE, v |-> <<>>]

EmptyObject == <<>>

\* { ...acc, [key]: value }
Put(acc, key, value) == (key :> value) @@ acc

\* The AAVE quote of one recognized reserve.
AaveQuote(e) ==
    [base |-> Number(Get(e, "liquidityRate")),
     reward |-> Number(OrElse(Get(e, "aIncentivesAPY"), Zero))]

processAAVE(response) ==
    Ok(Reduce(LAMBDA acc, e : IF e.symbol \in aaveTokens
                              THEN Put(acc, e.symbol, AaveQuote(e))
                              ELSE acc,
              response.reserves, EmptyObject))

\* The Compound quote of one recognized cToken; reading .value of an absent
\* supply_rate or comp_supply_apy is a TypeError.
CompoundQuote(e) ==
    [base |-> Number(Get(e.supply_rate, "value")),
     reward |-> Number(Div(Get(e.comp_supply_apy, "value"), Integer(100)))]

processCompound(response) ==
    Reduce(LAMBDA acc, e :
               IF ~acc.ok \/ e.symbol \notin compoundTokens THEN acc
               ELSE IF {"supply_rate", "comp_supply_apy"} \subseteq DOMAIN e
               THEN Ok(Put(acc.v, e.symbol, CompoundQuote(e)))
               ELSE Throw,
           response.cToken, Ok(EmptyObject))

\* x = default, in a destructuring pattern: the default replaces undefined only.
Default(v, dflt) == IF v.k = "undefined" THEN dflt ELSE v

\* data.pop() of an empty array is undefined, and destructuring it a TypeError.
processDefiLlama(pool, response) ==
    IF response.data = <<>> THEN Throw
    ELSE LET last == response.data[Len(response.data)]
             apyBase == Default(Get(last, "apyBase"), Zero)
             apyReward == Default(Get(last, "apyReward"), Zero)
         IN Ok(pool :> [base |-> Div(apyBase, Integer(100)),
                        reward |-> Div(OrElse(apyReward, Zero), Integer(100))])

\* merge: later items override earlier ones.
merge(items) == Reduce(LAMBDA acc, item : item @@ acc, items, EmptyObject)

\* Promise.all over results that may have thrown: all the values, or the rejection.
AllOk(results) ==
    IF \A i \in 1..Len(results) : results[i].ok
    THEN Ok([i \in 1..Len(results) |-> results[i].v])
    ELSE Throw

\* .then(f) on a result
Then(result, f(_)) == IF result.ok THEN Ok(f(result.v)) ELSE Throw

\* fetchAPYs, given what the three venues answer.
fetchAPYs(raw) ==
    LET llama == AllOk([i \in 1..Len(defiLlama) |->
                           processDefiLlama(defiLlama[i], raw.llama[defiLlama[i]])])
    IN Then(AllOk(<< processAAVE(raw.aave),
                     processCompound(raw.compound),
                     Then(llama, merge) >>),
            merge)

\* ------------------------------------------------------ holdings processing
\* The inner forEach of processStrategies, over the holdings of one strategy.
AddHoldings(acc, holdings) ==
    Reduce(LAMBDA sofar, token :
               Put(sofar, token,
                   Add(IF Truthy(Get(sofar, token)) THEN sofar[token] ELSE Zero,
                       holdings[token])),
           Keys(holdings, TokenKeyOrder), acc)

\* processStrategies: the total held of every token that occurs in the data.
processStrategies(data) ==
    Reduce(LAMBDA acc, key : AddHoldings(acc, data[key].holdings),
           Keys(data, StrategyKeyOrder), EmptyObject)

\* A grand total that counts every asset of the snapshot, stable or not.
TotalOfEveryToken(totalHoldings) ==
    Reduce(LAMBDA acc, key : Add(acc, OrElse(Get(totalHoldings, key), Zero)),
           Keys(totalHoldings, TokenKeyOrder), Zero)

\* stables.reduce((acc, key) => (acc += totalHoldings[key] || 0), 0)
TotalStables(totalHoldings) ==
    Reduce(LAMBDA acc, key : Add(acc, OrElse(Get(totalHoldings, key), Zero)),
           stables, Zero)

\* fetchOUSDDetails, given what the strategies endpoint answers.
fetchOUSDDetails(response) ==
    LET ousdStrategies ==
            [key \in DOMAIN response \ {"vault_holding"} |-> response[key]]
        totalHoldings == processStrategies(ousdStrategies)
    IN [totalHoldings |-> totalHoldings,
        ousdStrategies |-> ousdStrategies,
        totalStables |-> TotalStables(totalHoldings),
        holdingsSummary |->
            [token \in Range(stables) |-> Get(totalHoldings, token)]]

\* ------------------------------------------------------------ the projection
\* const { DAI: .., USDC: .., USDT: .. } = <strategy>?.holdings is a TypeError
\* when the strategy is not in the snapshot.
DestructuringThrows(ousdStrategies) ==
    \E i \in 1..Len(StrategyIds) : StrategyIds[i] \notin DOMAIN ousdStrategies

\* The argument of setAllocations in the effect: holding / total of the token.
BaselineCell(details, token, strategyId) ==
    Div(Get(details.ousdStrategies[strategyId].holdings, token),
        Get(details.totalHoldings, token))

Baseline(details) ==
    [token \in Range(Basket) |->
        [strategyId \in Range(StrategyIds) |-> BaselineCell(details, token, strategyId)]]

\* The null guard of the outcome map.
Omitted(entry, details, apys) ==
    \/ entry.strategyId \notin DOMAIN details.ousdStrategies
    \/ entry.apy \notin DOMAIN apys

\* A share that is the fraction of the cell itself, not weighted by the asset.
ShareWithinAsset(allocations, details, token, strategyId) ==
    Get(allocations[token], strategyId)

\* One term of the allocation: the matrix cell times the token's total holdings,
\* over the total of the stables.
Share(allocations, details, token, strategyId) ==
    Div(Mul(Get(allocations[token], strategyId), Get(details.totalHoldings, token)),
        details.totalStables)

\* The for loop over the tokens of a basket: allocation += share of the token.
BasketAllocation(allocations, details, strategyId, tokens) ==
    Reduce(LAMBDA allocation, currentToken :
               Add(allocation, Share(allocations, details, currentToken, strategyId)),
           tokens, Zero)

Allocation(entry, allocations, details) ==
    IF IsArray(entry.token)
    THEN BasketAllocation(allocations, details, entry.strategyId, entry.token)
    ELSE Share(allocations, details, entry.token, entry.strategyId)

\* The same loop: total += holdingsSummary[currentToken].
BasketTotal(details, tokens) ==
    Reduce(LAMBDA total, currentToken : Add(total, details.holdingsSummary[currentToken]),
           tokens, Zero)

\* ({ total } = holdingsSummary[token]) is a TypeError when the summary of the
\* token is undefined, and leaves total undefined when it is a number.
RowThrows(entry, details) ==
    /\ ~IsArray(entry.token)
    /\ Get(details.holdingsSummary, entry.token).k = "undefined"

\* A boost that falls back to 1 when the multiplier is falsy.
BoostedOrPlain(strategy, boostMultiplier) ==
    Mul(strategy, OrElse(boostMultiplier, Integer(1)))

\* const boosted = strategy * boostMultiplier
Boosted(strategy, boostMultiplier) == Mul(strategy, boostMultiplier)

Row(entry, allocations, boostMultiplier, details, apys) ==
    LET allocation == Allocation(entry, allocations, details)
        base == apys[entry.apy].base
        reward == apys[entry.apy].reward
        strategy == Add(base, reward)
        boosted == Boosted(strategy, boostMultiplier)
        weighted == Mul(allocation, boosted)
    IN [name |-> details.ousdStrategies[entry.strategyId].name,
        total |-> IF IsArray(entry.token)
                  THEN BasketTotal(details, entry.token)
                  ELSE Undefined,
        allocation |-> allocation,
        allocationAmount |-> Mul(allocation, details.totalStables),
        base |-> base,
        reward |-> reward,
        strategy |-> strategy,
        boosted |-> boosted,
        weighted |-> weighted,
        token |-> entry.token,
        null |-> FALSE]

\* The null the map callback returns for an entry without data.
NullRow ==
    [name |-> "", total |-> Undefined, allocation |-> Undefined,
     allocationAmount |-> Undefined, base |-> Undefined, reward |-> Undefined,
     strategy |-> Undefined, boosted |-> Undefined, weighted |-> Undefined,
     token |-> "", null |-> TRUE]

\* Rows put in front of the earlier ones, so that they come out in reverse.
OutcomeInReverse(catalog, allocations, boostMultiplier, details, apys) ==
    [i \in 1..Len(catalog) |->
        IF Omitted(catalog[Len(catalog) + 1 - i], details, apys) THEN NullRow
        ELSE Row(catalog[Len(catalog) + 1 - i], allocations, boostMultiplier,
                 details, apys)]

\* catalog.map(...): one element per catalog entry, in catalog order.
Outcome(catalog, allocations, boostMultiplier, details, apys) ==
    [i \in 1..Len(catalog) |->
        IF Omitted(catalog[i], details, apys) THEN NullRow
        ELSE Row(catalog[i], allocations, boostMultiplier, details, apys)]

OutcomeThrows(catalog, details, apys) ==
    \E i \in 1..Len(catalog) :
        ~Omitted(catalog[i], details, apys) /\ RowThrows(catalog[i], details)

\* item?.weighted || 0
WeightedOrZero(item) == OrElse(IF item.null THEN Undefined ELSE item.weighted, Zero)

\* outcome.reduce((acc, item) => (acc += item?.weighted || 0), 0)
CalculatedAPY(outcome) ==
    Reduce(LAMBDA acc, item : Add(acc, WeightedOrZero(item)), outcome, Zero)

\* ------------------------------------------------------ the external services
\* What the strategies endpoint and the three venues answer.  The answers are
\* drawn from a small family: every amount is in 0..MaxAmount, and one feature
\* of the holdings or of one venue's answer is varied at a time.
Amounts == 0..MaxAmount

SnapshotShapes == {"plain", "noAave", "noUSDT", "extras"}

QuoteShapes ==
    {"full", "aaveBare", "noAUSDC", "compNoValue", "compNoRate", "llamaBare"}

\* The holdings of one strategy: `rest` of every stable, except x DAI in the
\* AAVE strategy.
HoldingsOf(strategyId, shape, x, rest) ==
    LET tokens == IF shape = "noUSDT" THEN {"DAI", "USDC"} ELSE Range(Basket)
        amount(token) ==
            IF strategyId = "aavestrat_holding" /\ token = "DAI" THEN x ELSE rest
        stable == [token \in tokens |-> Integer(amount(token))]
    IN IF shape = "extras" /\ strategyId = "ousd_metastrat"
       THEN Put(stable, "OUSD", Integer(1))
       ELSE stable

Snapshot(shape, x, rest) ==
    LET listed == IF shape = "noAave"
                  THEN Range(StrategyIds) \ {"aavestrat_holding"}
                  ELSE Range(StrategyIds)
        keys == IF shape = "extras" THEN listed \cup {"vault_holding"} ELSE listed
    IN [key \in keys |->
           [name |-> key,
            holdings |-> IF key = "vault_holding"
                         THEN [token \in Range(Basket) |-> Integer(1)]
                         ELSE HoldingsOf(key, shape, x, rest)]]

RawAave(shape) ==
    LET adai == IF shape = "aaveBare"
                THEN << [symbol |-> "ADAI"] >>
                ELSE << [symbol |-> "ADAI", liquidityRate |-> Num(3, 100),
                         aIncentivesAPY |-> Num(1, 100)] >>
        ausdc == IF shape = "noAUSDC" THEN << >>
                 ELSE << [symbol |-> "AUSDC", liquidityRate |-> Num(2, 100)] >>
    IN [reserves |->
           adai \o ausdc \o
           << [symbol |-> "AUSDT", liquidityRate |-> Num(4, 100),
               aIncentivesAPY |-> Zero],
              [symbol |-> "AWETH", liquidityRate |-> Num(1, 100)] >>]

RawCompound(shape) ==
    LET full(symbol) == [symbol |-> symbol,
                         supply_rate |-> [value |-> Num(2, 100)],
                         comp_supply_apy |-> [value |-> Integer(1)]]
        cusdt == IF shape = "compNoValue"
                 THEN [symbol |-> "cUSDT", supply_rate |-> EmptyObject,
                       comp_supply_apy |-> EmptyObject]
                 ELSE IF shape = "compNoRate"
                 THEN [symbol |-> "cUSDT", comp_supply_apy |-> [value |-> Integer(1)]]
                 ELSE full("cUSDT")
    IN [cToken |-> << full("cDAI"), full("cUSDC"), cusdt >>]

RawLlama(shape) ==
    [pool \in Range(defiLlama) |->
        [data |->
            << [apyBase |-> Integer(9), apyReward |-> Integer(9)],
               IF shape = "llamaBare" /\ pool = "convex3pool"
               THEN [timestamp |-> Zero]
               ELSE IF pool \in {"convex3pool", "convexLusd3Crv", "convexOusd3Crv"}
               THEN [apyBase |-> Integer(4), apyReward |-> Integer(1)]
               ELSE [apyBase |-> Integer(3), apyReward |-> Null] >>]]

Raw(shape) ==
    [aave |-> RawAave(shape), compound |-> RawCompound(shape), llama |-> RawLlama(shape)]

Worlds ==
    { [strategies |-> Snapshot(t[1], t[3], t[4]), raw |-> Raw(t[2])] :
        t \in
            { t \in SnapshotShapes \X QuoteShapes \X Amounts \X Amounts :
                t[1] = "plain" \/ t[2] = "full" } }

\* The arguments the handlers are called with.
EditTokens == {"DAI", "XYZ"}

EditStrategies == {"aavestrat_holding", "threepoolstrat_holding", "nostrat"}

Percents == {Num(1, 2), Integer(2)}

BoostInputs == {"", "0", "2"}

\* parseFloat, on the strings of BoostInputs: the empty string parses to NaN.
parseFloat(text) ==
    CASE text = "0" -> Integer(0)
      [] text = "2" -> Integer(2)
      [] OTHER -> NaN

\* ----------------------------------------------------------------- the state
VARIABLES
    world,            \* what the external services answer to a fetch
    allocations,      \* useState: the allocation matrix
    boostMultiplier,  \* useState: the boost multiplier
    data,             \* useState: the published result, NoData until the first
    cycles,           \* the runs of the effect that await their fetches
    started,          \* how many runs of the effect have started
    mutations,        \* how many handler calls have been made
    seeded,           \* whether a run of the effect has called setAllocations
    published,        \* the run whose setData wrote the current data
    lastDone,         \* the run that ended last, and how it ended
    lastCall,         \* the handler call made last, and its arguments
    failed            \* the ids of the runs one of whose fetches failed

vars ==
    << world, allocations, boostMultiplier, data, cycles, started, mutations,
       seeded, published, lastDone, lastCall, failed >>

NoData == [null |-> TRUE]

NoCause ==
    [kind |-> "none", token |-> "", strategy |-> "", percent |-> Zero,
     afterSeed |-> FALSE]

NoCall ==
    [handler |-> "none", token |-> "", strategy |-> "", percent |-> Zero,
     boostValue |-> "", threw |-> FALSE]

\* JSON.stringify of one matrix value: NaN and the infinities print as null.
JsonNumber(v) == IF IsFinite(v) THEN v ELSE Null

\* JSON.stringify(allocations), as the value the text denotes: keys whose value
\* is undefined are left out.
Stringify(matrix) ==
    [token \in DOMAIN matrix |->
        [strategyId \in {k \in DOMAIN matrix[token] : ~(matrix[token][k].k = "undefined")}
            |-> JsonNumber(matrix[token][strategyId])]]

\* Dependencies compared as objects: a new matrix object is always a change.
DepsByIdentity(oldAllocations, oldBoost, newAllocations, newBoost) == TRUE

\* The dependency list of the effect changed between two renders.
DepsChanged(oldAllocations, oldBoost, newAllocations, newBoost) ==
    \/ ~(Stringify(newAllocations) = Stringify(oldAllocations))
    \/ ~(newBoost = oldBoost)

\* What has come in of the fetches of one run. fetchOUSDDetails awaits the
\* supply total and only then fetches the strategies (ousd counts the two);
\* fetchAPYs fetches AAVE, Compound and every DefiLlama pool at once (pools
\* counts the pools that are in).
NothingArrived == [ousd |-> 0, aave |-> FALSE, compound |-> FALSE, pools |-> 0]

EverythingArrived ==
    [ousd |-> 2, aave |-> TRUE, compound |-> TRUE, pools |-> Len(defiLlama)]

FetchNames == {"totalOusd", "ousdStrategies", "aave", "compound", "pool"}

\* The fetch is out: it was issued and has not come in.
IsOut(arrived, fetch) ==
    CASE fetch = "totalOusd" -> arrived.ousd = 0
      [] fetch = "ousdStrategies" -> arrived.ousd = 1
      [] fetch = "aave" -> ~arrived.aave
      [] fetch = "compound" -> ~arrived.compound
      [] fetch = "pool" -> arrived.pools < Len(defiLlama)

ComeIn(arrived, fetch) ==
    CASE fetch \in {"totalOusd", "ousdStrategies"} ->
             [arrived EXCEPT !.ousd = arrived.ousd + 1]
      [] fetch = "aave" -> [arrived EXCEPT !.aave = TRUE]
      [] fetch = "compound" -> [arrived EXCEPT !.compound = TRUE]
      [] fetch = "pool" -> [arrived EXCEPT !.pools = arrived.pools + 1]

\* The inner Promise.all of fetchAPYs over the pools, then merge.
PoolsFulfilled(arrived) == arrived.pools = Len(defiLlama)

\* fetchAPYs: Promise.all of AAVE, Compound and the pools.
QuotesFulfilled(arrived) ==
    arrived.aave /\ arrived.compound /\ PoolsFulfilled(arrived)

\* fetchOUSDDetails returns after both of its awaits.
DetailsFulfilled(arrived) == arrived.ousd = 2

\* await Promise.all([fetchOUSDDetails(), fetchAPYs()])
PromiseRace(arrived) == DetailsFulfilled(arrived) \/ QuotesFulfilled(arrived)

PromiseAll(arrived) == DetailsFulfilled(arrived) /\ QuotesFulfilled(arrived)

\* A run of the effect: the values of the render it closes over, and what has
\* come in of its fetches.
Cycle(id, closureAllocations, closureBoost, cause) ==
    [id |-> id, allocations |-> closureAllocations,
     boostMultiplier |-> closureBoost, cause |-> cause,
     arrived |-> NothingArrived]

NoCycle == Cycle(0, InitialAllocations, InitialBoostMultiplier, NoCause)

\* The render after a state change runs the effect when its dependencies changed.
Rerender(newAllocations, newBoost, remaining, cause) ==
    IF DepsChanged(allocations, boostMultiplier, newAllocations, newBoost)
    THEN /\ cycles' = Append(remaining,
                             Cycle(started + 1, newAllocations, newBoost, cause))
         /\ started' = started + 1
    ELSE /\ cycles' = remaining
         /\ started' = started

Init ==
    /\ world \in Worlds
    /\ allocations = InitialAllocations
    /\ boostMultiplier = InitialBoostMultiplier
    /\ data = NoData
    /\ cycles = << Cycle(1, InitialAllocations, InitialBoostMultiplier,
                         [NoCause EXCEPT !.kind = "mount"]) >>
    /\ started = 1
    /\ mutations = 0
    /\ seeded = FALSE
    /\ published = NoCycle
    /\ lastDone = [id |-> 0, how |-> "none", cause |-> NoCause]
    /\ lastCall = NoCall
    /\ failed = {}

\* { ...prev, [token]: { ...prev[token], [strategy]: percent } }
SetCell(prev, token, strategy, percent) ==
    Put(prev, token,
        Put(IF token \in DOMAIN prev THEN prev[token] ELSE EmptyObject,
            strategy, percent))

onChangeAllocation(token, strategy, percent) ==
    /\ mutations < MaxMutations
    /\ mutations' = mutations + 1
    /\ allocations' = SetCell(allocations, token, strategy, percent)
    /\ Rerender(allocations', boostMultiplier, cycles,
                [kind |-> "edit", token |-> token, strategy |-> strategy,
                 percent |-> percent, afterSeed |-> seeded])
    /\ lastCall' = [NoCall EXCEPT !.handler = "onChangeAllocation", !.token = token,
                                  !.strategy = strategy, !.percent = percent]
    /\ UNCHANGED << world, boostMultiplier, data, seeded, published, lastDone,
                    failed >>

onChangeBoostMultiplier(boostValue) ==
    /\ mutations < MaxMutations
    /\ mutations' = mutations + 1
    /\ boostMultiplier' = parseFloat(boostValue)
    /\ Rerender(allocations, boostMultiplier', cycles,
                [NoCause EXCEPT !.kind = "boost"])
    /\ lastCall' = [NoCall EXCEPT !.handler = "onChangeBoostMultiplier",
                                  !.boostValue = boostValue]
    /\ UNCHANGED << world, allocations, data, seeded, published, lastDone,
                    failed >>

Remove(seq, i) == SubSeq(seq, 1, i - 1) \o SubSeq(seq, i + 1, Len(seq))

Done(cycle, how) == [id |-> cycle.id, how |-> how, cause |-> cycle.cause]

\* The promise of run i is rejected before the effect sets anything.
Ends(i, how) ==
    /\ cycles' = Remove(cycles, i)
    /\ lastDone' = Done(cycles[i], how)
    /\ failed' = IF how = "fetch failed" THEN failed \cup {cycles[i].id} ELSE failed
    /\ UNCHANGED << world, allocations, boostMultiplier, data, started, mutations,
                    seeded, published, lastCall >>

\* A fetch of run i that is out fails: Promise.all rejects and the async
\* function of the effect ends there.
Rejected(i) ==
    /\ i \in 1..Len(cycles)
    /\ \E fetch \in FetchNames : IsOut(cycles[i].arrived, fetch)
    /\ Ends(i, "fetch failed")

\* The setData argument of a run.
ResultOf(outcome, details, apys) ==
    [null |-> FALSE,
     outcome |-> outcome,
     calculatedAPY |-> CalculatedAPY(outcome),
     totalStables |-> details.totalStables,
     holdingsSummary |-> details.holdingsSummary,
     totalHoldings |-> details.totalHoldings,
     ousdStrategies |-> details.ousdStrategies,
     apys |-> apys]

Result(cycle, details, apys) ==
    CHOOSE result \in
        { ResultOf(outcome, details, apys) :
            outcome \in { Outcome(strategies, cycle.allocations,
                                  cycle.boostMultiplier, details, apys) } } : TRUE

\* The body of the effect after its await: the fetches of run i that are still
\* out come in, and the run goes on.
Settled(i) ==
    /\ i \in 1..Len(cycles)
    /\ \E cycle \in {[cycles[i] EXCEPT !.arrived = EverythingArrived]},
          details \in {fetchOUSDDetails(world.strategies)},
          quotes \in {fetchAPYs(world.raw)} :
          IF ~quotes.ok
          THEN Ends(i, "quotes threw")
          ELSE IF DestructuringThrows(details.ousdStrategies)
          THEN Ends(i, "holdings threw")
          ELSE /\ allocations' = Baseline(details)
               /\ seeded' = TRUE
               /\ Rerender(allocations', boostMultiplier, Remove(cycles, i),
                           [NoCause EXCEPT !.kind = "seed"])
               /\ IF OutcomeThrows(strategies, details, quotes.v)
                  THEN /\ lastDone' = Done(cycle, "outcome threw")
                       /\ UNCHANGED << data, published >>
                  ELSE /\ data' = Result(cycle, details, quotes.v)
                       /\ published' = cycle
                       /\ lastDone' = Done(cycle, "published")
               /\ UNCHANGED << world, boostMultiplier, mutations, lastCall, failed >>

Next ==
    \/ \E token \in EditTokens, strategy \in EditStrategies, percent \in Percents :
           onChangeAllocation(token, strategy, percent)
    \/ \E boostValue \in BoostInputs : onChangeBoostMultiplier(boostValue)
    \/ \E i \in 1..Len(cycles) : Settled(i)
    \/ \E i \in 1..Len(cycles) : Rejected(i)

Spec == Init /\ [][Next]_vars

\* The same program with every fetch of a run coming in as a step of its own.
FetchWorlds ==
    {w \in Worlds : w = [strategies |-> Snapshot("plain", 1, 1), raw |-> Raw("full")]}

FetchBoostInputs == {"2"}

FetchInit == Init /\ world \in FetchWorlds

\* One fetch of run i comes in.
Arrives(i, fetch) ==
    /\ i \in 1..Len(cycles)
    /\ IsOut(cycles[i].arrived, fetch)
    /\ cycles' = [cycles EXCEPT ![i].arrived = ComeIn(cycles[i].arrived, fetch)]
    /\ UNCHANGED << world, allocations, boostMultiplier, data, started, mutations,
                    seeded, published, lastDone, lastCall, failed >>

\* The await of run i is over, and the run goes on.
Awaited(i) ==
    /\ i \in 1..Len(cycles)
    /\ PromiseAll(cycles[i].arrived)
    /\ Settled(i)

FetchNext ==
    \/ \E boostValue \in FetchBoostInputs : onChangeBoostMultiplier(boostValue)
    \/ \E i \in 1..Len(cycles), fetch \in FetchNames : Arrives(i, fetch)
    \/ \E i \in 1..Len(cycles) : Awaited(i)
    \/ \E i \in 1..Len(cycles) : Rejected(i)

FetchSpec == FetchInit /\ [][FetchNext]_vars

\* ------------------------------------------------------------------- claims
\* What the published result was computed from: the totals it carries, and the
\* matrix and boost of the run that published it.
Emitted(outcome) == SelectSeq(outcome, LAMBDA item : ~item.null)

HasQuote(i) == strategies[i].apy \in DOMAIN data.apys

\* The allocation the specification gives a catalog entry: the sum over the
\* assets of the entry of matrix cell times per-asset total, over the grand total.
ClaimedAllocation(entry, matrix, perAssetTotal, grandTotal) ==
    LET assets == IF IsArray(entry.token) THEN entry.token ELSE << entry.token >>
        products == [k \in 1..Len(assets) |->
                        Mul(matrix[assets[k]][entry.strategyId],
                            Get(perAssetTotal, assets[k]))]
    IN Div(Reduce(LAMBDA sum, product : Add(sum, product), products, Zero),
           grandTotal)

\* The example of the specification: assets A = DAI (total 100) and B = USDC
\* (total 300), one basket strategy holding 50 of A and 300 of B, quoted at
\* base 0.04 and reward 0.01, boost 2.
ExampleDetails ==
    fetchOUSDDetails(
        [threepoolstrat_holding |->
            [name |-> "S", holdings |-> [DAI |-> Integer(50), USDC |-> Integer(300)]],
         aavestrat_holding |->
            [name |-> "T", holdings |-> [DAI |-> Integer(50)]]])

ExampleMatrix ==
    [token \in {"DAI", "USDC"} |->
        [strategyId \in {"threepoolstrat_holding"} |->
            BaselineCell(ExampleDetails, token, strategyId)]]

ExampleOutcome ==
    Outcome(<< [strategyId |-> "threepoolstrat_holding", token |-> <<"DAI", "USDC">>,
                apy |-> "convex3pool"] >>,
            ExampleMatrix, Integer(2), ExampleDetails,
            [convex3pool |-> [base |-> Num(4, 100), reward |-> Num(1, 100)]])

\* C1: every emitted row's allocation is the cross-asset share of the reserve:
\* the matrix cells of the entry's assets, each weighted by the asset's total
\* holdings, summed and divided by the grand total; in the example it is 0.875.
C1_AllocationIsCrossAssetShare ==
    /\ ~data.null =>
          \A i \in 1..Len(strategies) :
              ~data.outcome[i].null =>
                  data.outcome[i].allocation =
                      ClaimedAllocation(strategies[i], published.allocations,
                                        data.totalHoldings, data.totalStables)
    /\ ExampleMatrix["DAI"]["threepoolstrat_holding"] = Num(1, 2)
    /\ ExampleMatrix["USDC"]["threepoolstrat_holding"] = Integer(1)
    /\ ExampleOutcome[1].allocation = Num(875, 1000)

\* A result is published whose basket rows and single-asset rows carry a
\* nonzero share, computed from a seeded matrix.
C1_Witness ==
    /\ ~data.null
    /\ published.cause.kind = "seed"
    /\ \E i \in 1..Len(strategies) :
          /\ IsArray(strategies[i].token)
          /\ ~data.outcome[i].null
          /\ IsFinite(data.outcome[i].allocation)
          /\ ~(data.outcome[i].allocation = Zero)
    /\ \E i \in 1..Len(strategies) :
          /\ ~IsArray(strategies[i].token)
          /\ ~data.outcome[i].null
          /\ IsFinite(data.outcome[i].allocation)
          /\ ~(data.outcome[i].allocation = Zero)

\* C2: the blended APY is the sum of weighted over exactly the emitted rows,
\* none dropped or replaced, and every row has strategy = base + reward,
\* boosted = strategy * boost, weighted = allocation * boosted and
\* allocationAmount = allocation * grandTotal.
C2_BlendedIsSumOfEmittedWeighted ==
    ~data.null =>
        /\ data.calculatedAPY =
               Reduce(LAMBDA sum, item : Add(sum, item.weighted),
                      Emitted(data.outcome), Zero)
        /\ \A i \in 1..Len(strategies) :
              ~data.outcome[i].null =>
                  LET row == data.outcome[i]
                  IN /\ row.strategy = Add(row.base, row.reward)
                     /\ row.boosted = Mul(row.strategy, published.boostMultiplier)
                     /\ row.weighted = Mul(row.allocation, row.boosted)
                     /\ row.allocationAmount = Mul(row.allocation, data.totalStables)

\* The holdings figures the published result carries.
PublishedDetails ==
    [totalHoldings |-> data.totalHoldings,
     ousdStrategies |-> data.ousdStrategies,
     totalStables |-> data.totalStables,
     holdingsSummary |-> data.holdingsSummary]

\* C3: a catalog entry whose quote key has no normalized quote leaves no row in
\* the result, not even a placeholder: rows and blended APY are those of the
\* catalog without the entry.
C3_MissingQuoteLeavesNoRow ==
    ~data.null =>
        \A i \in 1..Len(strategies) :
            ~HasQuote(i) =>
                \E rows \in { Outcome(Remove(strategies, i), published.allocations,
                                      published.boostMultiplier, PublishedDetails,
                                      data.apys) } :
                    /\ Len(data.outcome) = Len(rows)
                    /\ \A k \in 1..Len(rows) : data.outcome[k] = rows[k]
                    /\ data.calculatedAPY = CalculatedAPY(rows)

\* A run of the effect has just called setAllocations.
SeedStep ==
    /\ ~(lastDone' = lastDone)
    /\ lastDone'.how \in {"published", "outcome threw"}

\* C4: when the strategies hold 0 of an asset in total, the baseline seeded into
\* the matrix is exactly 0 for every strategy of that asset (no NaN is stored).
C4_ZeroTotalSeedsZero ==
    [][SeedStep =>
          \A token \in Range(Basket) :
              Get(fetchOUSDDetails(world.strategies).totalHoldings, token) = Zero =>
                  \A strategyId \in Range(StrategyIds) :
                      allocations'[token][strategyId] = Zero]_vars

\* C5: when the grand total is 0, every emitted row's allocation is 0 and the
\* blended APY is 0.
C5_ZeroGrandTotal ==
    (~data.null /\ data.totalStables = Zero) =>
        /\ \A i \in 1..Len(strategies) :
              ~data.outcome[i].null => data.outcome[i].allocation = Zero
        /\ data.calculatedAPY = Zero

\* The strategies of the snapshot: everything but the vault's own holding.
SnapshotStrategies == DOMAIN world.strategies \ {"vault_holding"}

\* The assets that appear in the snapshot.
SnapshotTokens == UNION {DOMAIN world.strategies[key].holdings : key \in SnapshotStrategies}

\* The amount the strategies hold of a token, a missing position counting 0.
\* The amounts of a snapshot are whole numbers.
HeldByStrategies(token) ==
    Reduce(LAMBDA sum, key :
               sum + (IF token \in DOMAIN world.strategies[key].holdings
                      THEN world.strategies[key].holdings[token].n
                      ELSE 0),
           Keys([key \in SnapshotStrategies |-> TRUE], StrategyKeyOrder), 0)

HeldOfAll(tokens) ==
    Reduce(LAMBDA sum, token : sum + (IF token \in tokens THEN HeldByStrategies(token) ELSE 0),
           TokenKeyOrder, 0)

PerAssetTotalsAreSums(details) ==
    /\ DOMAIN details.totalHoldings = SnapshotTokens
    /\ \A token \in SnapshotTokens :
          details.totalHoldings[token] = Integer(HeldByStrategies(token))

\* C6 as stated: the grand total is the sum of the per-asset totals over all
\* assets that appear in the snapshot.
C6_GrandTotalOverAllAssets ==
    \E details \in {fetchOUSDDetails(world.strategies)} :
        /\ PerAssetTotalsAreSums(details)
        /\ details.totalStables = Integer(HeldOfAll(SnapshotTokens))

\* C6, amended: the grand total is the sum of the per-asset totals over the
\* three stables DAI, USDT and USDC (one that does not appear counting 0); a
\* per-asset total is the sum over the strategies of their holding of the asset.
C6_GrandTotalOverStables ==
    \E details \in {fetchOUSDDetails(world.strategies)} :
        /\ PerAssetTotalsAreSums(details)
        /\ details.totalStables = Integer(HeldOfAll(SnapshotTokens \cap Range(stables)))
        /\ ~data.null => /\ data.totalStables = details.totalStables
                         /\ data.totalHoldings = details.totalHoldings

\* A result is published from a snapshot in which a strategy also holds an asset
\* that is no stable, next to nonzero stable holdings.
C6_Witness ==
    /\ ~data.null
    /\ ~(SnapshotTokens \subseteq Range(stables))
    /\ ~(data.totalStables = Zero)
    /\ "vault_holding" \in DOMAIN world.strategies

\* C7: a catalog strategy that is absent from the snapshot does not keep the
\* run from completing: a result is published and no error is raised.
C7_AbsentStrategyStillPublishes ==
    ( /\ \E strategyId \in Range(StrategyIds) : strategyId \notin DOMAIN world.strategies
      /\ lastDone.how \notin {"none", "fetch failed", "quotes threw"} ) =>
        /\ lastDone.how = "published"
        /\ ~data.null

KnownCell(token, strategy) ==
    token \in Range(Basket) /\ strategy \in Range(StrategyIds)

\* The step is a call of onChangeAllocation.
EditStep ==
    /\ ~(mutations' = mutations)
    /\ lastCall'.handler = "onChangeAllocation"

\* The step ends the run that the last edit started, by publishing.
EditRunPublishes ==
    /\ ~(lastDone' = lastDone)
    /\ lastDone'.how = "published"
    /\ lastDone'.cause.kind = "edit"
    /\ lastDone'.cause.afterSeed
    /\ KnownCell(lastDone'.cause.token, lastDone'.cause.strategy)
    /\ lastCall.handler = "onChangeAllocation"
    /\ lastCall.token = lastDone'.cause.token
    /\ lastCall.strategy = lastDone'.cause.strategy
    /\ lastCall.percent = lastDone'.cause.percent

\* C8: after the matrix was seeded, an edit sets its one cell and leaves the
\* others, and the cell still holds the edited value when the run the edit
\* triggered has completed.
C8_EditSurvivesRecompute ==
    [][ /\ (EditStep /\ seeded /\ KnownCell(lastCall'.token, lastCall'.strategy)) =>
              \A token \in Range(Basket), strategy \in Range(StrategyIds) :
                  allocations'[token][strategy] =
                      IF token = lastCall'.token /\ strategy = lastCall'.strategy
                      THEN lastCall'.percent
                      ELSE allocations[token][strategy]
        /\ EditRunPublishes =>
              allocations'[lastDone'.cause.token][lastDone'.cause.strategy] =
                  lastDone'.cause.percent ]_vars

\* C9: onChangeAllocation fails and leaves the matrix unchanged when the asset
\* or the strategy is not in the catalog; for known identifiers it never fails
\* and stores the fraction as given.
C9_UnknownIdentifierRejected ==
    [][ EditStep =>
          IF KnownCell(lastCall'.token, lastCall'.strategy)
          THEN /\ ~lastCall'.threw
               /\ allocations'[lastCall'.token][lastCall'.strategy] = lastCall'.percent
          ELSE /\ lastCall'.threw
               /\ allocations' = allocations ]_vars

\* A raw rate field is absent: the field itself, or the value inside it.
Lacks(e, field) == field \notin DOMAIN e

LacksValue(e, field) == Lacks(e, field) \/ Lacks(e[field], "value")

\* C10: no processor fails on a recognized venue entry that lacks a raw rate
\* field, and the base or reward rate it produces for the absent field is 0.
C10_AbsentRateIsZero ==
    /\ \E quotes \in {processAAVE(world.raw.aave)} :
          /\ quotes.ok
          /\ \A k \in 1..Len(world.raw.aave.reserves) :
                \E e \in {world.raw.aave.reserves[k]} :
                    e.symbol \in aaveTokens =>
                        /\ Lacks(e, "liquidityRate") => quotes.v[e.symbol].base = Zero
                        /\ Lacks(e, "aIncentivesAPY") => quotes.v[e.symbol].reward = Zero
    /\ \E quotes \in {processCompound(world.raw.compound)} :
          /\ quotes.ok
          /\ \A k \in 1..Len(world.raw.compound.cToken) :
                \E e \in {world.raw.compound.cToken[k]} :
                    e.symbol \in compoundTokens =>
                        /\ LacksValue(e, "supply_rate") => quotes.v[e.symbol].base = Zero
                        /\ LacksValue(e, "comp_supply_apy") =>
                               quotes.v[e.symbol].reward = Zero
    /\ \A pool \in Range(defiLlama) :
          \E quotes \in {processDefiLlama(pool, world.raw.llama[pool])},
             e \in {world.raw.llama[pool].data[Len(world.raw.llama[pool].data)]} :
              /\ quotes.ok
              /\ Lacks(e, "apyBase") => quotes.v[pool].base = Zero
              /\ Lacks(e, "apyReward") => quotes.v[pool].reward = Zero

\* The step writes a result.
PublishStep == ~(data' = data) \/ ~(published' = published)

\* C11: a run publishes only when the supply total, the strategies and every
\* quote fetch of that same run have come in, whatever the order; a run one of
\* whose fetches failed or is still out publishes nothing, then or later.
C11_PublishOnlyAfterEveryFetch ==
    [][ /\ PublishStep =>
              \E i \in 1..Len(cycles) :
                  /\ cycles[i].id = published'.id
                  /\ cycles[i].arrived = EverythingArrived
                  /\ cycles[i].id \notin failed'
        /\ \A id \in failed' :
              /\ \A i \in 1..Len(cycles') : ~(cycles'[i].id = id)
              /\ id \notin failed => ~PublishStep
              /\ data'.null \/ ~(published'.id = id) ]_vars

\* A result is published while an earlier run has failed and a later run has
\* only some of its fetches in.
C11_Witness ==
    /\ ~data.null
    /\ published.arrived = EverythingArrived
    /\ ~(failed = {})
    /\ \E i \in 1..Len(cycles) :
          /\ cycles[i].arrived.ousd = 1
          /\ cycles[i].arrived.pools = 2
          /\ cycles[i].arrived.compound
          /\ ~cycles[i].arrived.aave

\* The element of the published outcome at position i is the one of catalog
\* entry i.
IsRowOf(i) ==
    \E row \in {data.outcome[i]}, entry \in {strategies[i]} :
        IF row.null
        THEN Omitted(entry, PublishedDetails, data.apys)
        ELSE /\ ~Omitted(entry, PublishedDetails, data.apys)
             /\ IsArray(row.token) = IsArray(entry.token)
             /\ row.token = entry.token
             /\ row.name = data.ousdStrategies[entry.strategyId].name
             /\ row.base = data.apys[entry.apy].base
             /\ row.reward = data.apys[entry.apy].reward

C13_ZeroBoostZeroAPY ==
    (~data.null /\ published.boostMultiplier = Zero) =>
        data.calculatedAPY = Zero

\* A result computed with boost 0 is in place in which a row has a nonzero
\* allocation and a nonzero strategy rate.
C13_Witness ==
    /\ ~data.null
    /\ published.boostMultiplier = Zero
    /\ lastCall.handler = "onChangeBoostMultiplier"
    /\ \E i \in 1..Len(strategies) :
          /\ ~data.outcome[i].null
          /\ IsFinite(data.outcome[i].allocation)
          /\ ~(data.outcome[i].allocation = Zero)
          /\ IsFinite(data.outcome[i].strategy)
          /\ ~(data.outcome[i].strategy = Zero)
          /\ data.outcome[i].weighted = Zero

\* C14: once every run that was started has completed, none of them by a
\* failure, the result in place is the projection of the matrix and the boost
\* multiplier the state holds: no earlier run has published last.
C14_NoStaleResultAtRest ==
    ( /\ cycles = << >>
      /\ failed = {}
      /\ lastDone.how = "published" ) =>
        /\ data.outcome = Outcome(strategies, allocations, boostMultiplier,
                                  PublishedDetails, data.apys)
        /\ data.calculatedAPY = CalculatedAPY(data.outcome)
        /\ published.boostMultiplier = boostMultiplier
        /\ Stringify(published.allocations) = Stringify(allocations)

\* C15: the first result published after startup is computed from the matrix
\* seeded with the baseline of the run's holdings, not from the initial matrix.
C15_FirstResultFromSeededMatrix ==
    [][ (data.null /\ ~data'.null) =>
          \E details \in {fetchOUSDDetails(world.strategies)} :
              /\ data'.outcome = Outcome(strategies, Baseline(details),
                                         published'.boostMultiplier, details,
                                         data'.apys)
              /\ ~(published'.allocations = InitialAllocations) ]_vars

\* A step of Settled, told by what it leaves behind: a run that was in flight
\* has ended, and not by a failed fetch.
RunEnds ==
    \E i \in 1..Len(cycles),
       how \in {"quotes threw", "holdings threw", "outcome threw", "published"} :
        lastDone' = Done(cycles[i], how)

\* The fetches of a run that is in flight come in at some time.
LiveSpec == Spec /\ WF_lastDone(RunEnds)

\* C16: with answers that do not change, only finitely many runs are started
\* (two at startup and at most two more for each edit or boost change), the
\* runs in flight come to an end, and with none in flight a run is started only
\* by the next edit or boost change.
C16_Quiescence ==
    /\ [](started <= 2 + 2 * mutations)
    /\ [][(cycles = << >> /\ ~(started' = started)) =>
              ~(mutations' = mutations)]_vars
    /\ <>[](cycles = << >>)

\* At rest after startup, the seed and one edit: four runs were started and
\* none is in flight.
C16_Witness ==
    /\ cycles = << >>
    /\ mutations = 1
    /\ started = 4
    /\ seeded
    /\ lastDone.cause.kind = "seed"

====
